---------------------------- MODULE Spec2Model ----------------------------
(***************************************************************************)
(* A model of noxfile.py (iris-esmf-regrid test automation).               *)
(*                                                                         *)
(* Python strings are modelled as sequences of one-character strings, so   *)
(* that split, strip, startswith, lower, replace and format are computed   *)
(* character by character as Python computes them.  A pathlib.Path is its  *)
(* textual form (components joined by "/").                                *)
(***************************************************************************)
EXTENDS Integers, Sequences, FiniteSets, TLC

VARIABLES
    \* --- lock-file path builders (_lockfile_path, _session_lockfile,
    \*     the path part of update_lockfiles)
    pathCall,      \* the last direct call of _lockfile_path: arguments and result
    sessionLock,   \* per python version: the path _session_lockfile returned
    reported,      \* per requirements file: the lockfile_path update_lockfiles printed
    templated,     \* per requirements file: the --filename-template it built
    \* --- _get_iris_github_artifact
    posargs,       \* session.posargs
    IRIS_SOURCE,   \* the IRIS_SOURCE environment variable (NoneVal when unset)
    result,        \* the local variable result
    source,        \* what result held when the loop over posargs ended
    artPc,         \* "start", "selected" (line 136 is next) or "returned"
    \* --- update_lockfiles
    ulPc,          \* the statement update_lockfiles is at
    ulTodo,        \* the requirements files the glob has not yielded yet
    ulFile,        \* req_file.name of the iteration under way
    lockDirExists, \* whether requirements/nox.lock exists
    reqContent,    \* per requirements file: its lines
    tmpContent,    \* per requirements file: the lines of its copy in the tmp dir
    irisReq,       \* the downloaded Iris requirements files in the tmp dir
    condaRuns,     \* the conda-lock runs: the file handed over and its lines
    ulLog,         \* the steps taken so far and how each ended
    \* --- the tests session: _prepare_env and the environment cache
    lock,          \* per session: the content of its lock file (NoFile: none)
    marker,        \* per session: the text of its cache marker file (NoMarker: none)
    venv,          \* per session: the conda environment and what was installed in it
    pc,            \* the statement the running session is at ("idle": none runs)
    cur,           \* the running session (NoSession when idle)
    run,           \* the marker the running _prepare_env met, and how many
                   \* installs and environment creations it completed
    lastOk,        \* the session whose run ended last, if _prepare_env returned
                   \* and its lock file is unchanged since (NoSession otherwise)
    changed        \* the outcome of a direct call of _venv_changed

pathVars == <<pathCall, sessionLock, reported, templated>>
artVars == <<posargs, IRIS_SOURCE, result, source, artPc>>
ulVars == <<ulPc, ulTodo, ulFile, lockDirExists, reqContent, tmpContent, irisReq,
            condaRuns, ulLog>>

envVars == <<lock, marker, venv, pc, cur, run, lastOk, changed>>

vars == <<pathVars, artVars, ulVars, envVars>>

-----------------------------------------------------------------------------
(* Python str helpers *)

UpperCase == <<"A","B","C","D","E","F","G","H","I","J","K","L","M","N","O","P","Q","R","S","T","U","V","W","X","Y","Z">>
LowerCase == <<"a","b","c","d","e","f","g","h","i","j","k","l","m","n","o","p","q","r","s","t","u","v","w","x","y","z">>
Digits == <<"0","1","2","3","4","5","6","7","8","9">>

\* The empty str.
EmptyStr == <<>>

\* The characters str.strip() removes (the ones the inputs of the model use).
Whitespace == {" ", "\t", "\n"}

\* s.startswith(p)
StartsWith(s, p) == Len(s) >= Len(p) /\ SubSeq(s, 1, Len(p)) = p

\* s.endswith(p)
EndsWith(s, p) == Len(s) >= Len(p) /\ SubSeq(s, Len(s) - Len(p) + 1, Len(s)) = p

\* s[1:]
DropFirst(s) == IF s = <<>> THEN <<>> ELSE Tail(s)

\* s[:-1]
DropLast(s) == IF s = <<>> THEN <<>> ELSE SubSeq(s, 1, Len(s) - 1)

RECURSIVE LStrip(_)
LStrip(s) == IF s # <<>> /\ Head(s) \in Whitespace THEN LStrip(Tail(s)) ELSE s

RECURSIVE RStrip(_)
RStrip(s) == IF s # <<>> /\ s[Len(s)] \in Whitespace THEN RStrip(DropLast(s)) ELSE s

\* s.strip()
Strip(s) == RStrip(LStrip(s))

\* one character of s.lower()
LowerChar(c) ==
    IF \E i \in 1..Len(UpperCase) : UpperCase[i] = c
    THEN LowerCase[CHOOSE i \in 1..Len(UpperCase) : UpperCase[i] = c]
    ELSE c

\* s.lower()
Lower(s) == [i \in 1..Len(s) |-> LowerChar(s[i])]

\* s.split(sep) for a one-character sep: the list of the pieces between the
\* separators; n separators give n + 1 pieces, empty pieces included.
RECURSIVE SplitFrom(_, _, _)
SplitFrom(s, sep, piece) ==
    IF s = <<>> THEN <<piece>>
    ELSE IF Head(s) = sep THEN <<piece>> \o SplitFrom(Tail(s), sep, <<>>)
    ELSE SplitFrom(Tail(s), sep, Append(piece, Head(s)))

Split(s, sep) == SplitFrom(s, sep, <<>>)

\* s.replace(old, "") for a one-character old.
RECURSIVE RemoveChar(_, _)
RemoveChar(s, old) ==
    IF s = <<>> THEN <<>>
    ELSE IF Head(s) = old THEN RemoveChar(Tail(s), old)
    ELSE <<Head(s)>> \o RemoveChar(Tail(s), old)

\* The index of the first c in s, 0 when there is none.
IndexOf(s, c) ==
    IF \E i \in 1..Len(s) : s[i] = c
    THEN CHOOSE i \in 1..Len(s) : s[i] = c /\ \A j \in 1..(i - 1) : s[j] # c
    ELSE 0

-----------------------------------------------------------------------------
(* Module constants of noxfile.py *)

\* PY_VER: the default list ["3.6", "3.7", "3.8"].
PY_VER == << <<"3",".","6">>, <<"3",".","7">>, <<"3",".","8">> >>

LOCKFILE_PLATFORM == <<"l","i","n","u","x","-","6","4">>

\* Path() / "requirements" / "nox.lock"
LockDir == <<"r","e","q","u","i","r","e","m","e","n","t","s","/","n","o","x",".","l","o","c","k">>

\* "{py_string}-{platform}.lock"
name_template == <<"{","p","y","_","s","t","r","i","n","g","}","-","{","p","l","a","t","f","o","r","m","}",".","l","o","c","k">>

KeyPyString == <<"p","y","_","s","t","r","i","n","g">>
PlatformPlaceholder == <<"{","p","l","a","t","f","o","r","m","}">>

-----------------------------------------------------------------------------
(* _lockfile_path, _session_lockfile *)

\* template.format(py_string=py_string, platform=platform): every {name} field
\* is replaced by the keyword argument of that name, in one pass (a
\* replacement text is not expanded again).
RECURSIVE Format(_, _, _)
Format(template, py_string, platform) ==
    IF template = <<>> THEN <<>>
    ELSE IF Head(template) = "{" /\ IndexOf(template, "}") > 0
    THEN LET close == IndexOf(template, "}")
             field == SubSeq(template, 2, close - 1)
             rest  == SubSeq(template, close + 1, Len(template))
         IN  (IF field = KeyPyString THEN py_string ELSE platform)
                 \o Format(rest, py_string, platform)
    ELSE <<Head(template)>> \o Format(Tail(template), py_string, platform)

\* dir / lockfile_name
PathJoin(dir, name) == dir \o <<"/">> \o name

\* A bug variant of _lockfile_path: the template carries its own "py".
LockfilePathPyTemplate(py_string, platform_placeholder) ==
    PathJoin(LockDir,
             <<"p","y">> \o Format(name_template, py_string,
                    IF platform_placeholder THEN PlatformPlaceholder
                    ELSE LOCKFILE_PLATFORM))

\* _lockfile_path(py_string, platform_placeholder)
LockfilePath(py_string, platform_placeholder) ==
    LET platform == IF platform_placeholder THEN PlatformPlaceholder
                    ELSE LOCKFILE_PLATFORM
        lockfile_name == Format(name_template, py_string, platform)
    IN  PathJoin(LockDir, lockfile_name)

\* _session_lockfile(session), session.python being PY_VER[v]
SessionLockfile(v) == LockfilePath(RemoveChar(PY_VER[v], "."), FALSE)

-----------------------------------------------------------------------------
(* update_lockfiles: the requirements files it globs and the paths it builds *)

YmlSuffix == <<".","y","m","l">>

\* requirements/pyXY.yml for the python version PY_VER[v]
ReqFileOf(v) == <<"p","y">> \o RemoveChar(PY_VER[v], ".") \o YmlSuffix

\* The directory listing of requirements/: one pyXY.yml per python version and
\* two files the glob must skip.
ReqDirListing ==
    { ReqFileOf(v) : v \in 1..Len(PY_VER) }
        \cup { <<"c","o","r","e",".","y","m","l">>,
               <<"p","y","p","r","o","j","e","c","t",".","y","m","l">> }

\* Path.glob(r"py[0-9]*.yml") on a file name
GlobMatches(name) ==
    /\ Len(name) >= 7
    /\ SubSeq(name, 1, 2) = <<"p","y">>
    /\ \E i \in 1..Len(Digits) : Digits[i] = name[3]
    /\ EndsWith(name, YmlSuffix)

ReqFiles == { f \in ReqDirListing : GlobMatches(f) }

\* Path.stem: the name without its last suffix
RECURSIVE LastDot(_)
LastDot(name) ==
    IF name = <<>> THEN 0
    ELSE IF name[Len(name)] = "." THEN Len(name)
    ELSE LastDot(DropLast(name))

Stem(name) == IF LastDot(name) > 1 THEN SubSeq(name, 1, LastDot(name) - 1) ELSE name

-----------------------------------------------------------------------------
(* The path builders as a state machine *)

\* The py_string arguments a direct call of _lockfile_path is given.
PyStrings ==
    { RemoveChar(PY_VER[v], ".") : v \in 1..Len(PY_VER) }
        \cup { <<"p","y">> \o RemoveChar(PY_VER[v], ".") : v \in 1..Len(PY_VER) }
        \cup { EmptyStr }

NoCall == [called |-> FALSE, py_string |-> EmptyStr, platform_placeholder |-> FALSE,
           result |-> EmptyStr]

PathInit ==
    /\ pathCall = NoCall
    /\ sessionLock = [v \in 1..Len(PY_VER) |-> EmptyStr]
    /\ reported = [f \in ReqFiles |-> EmptyStr]
    /\ templated = [f \in ReqFiles |-> EmptyStr]

\* A direct call of _lockfile_path.
CallLockfilePath(py_string, platform_placeholder) ==
    /\ pathCall' = [called |-> TRUE, py_string |-> py_string,
                    platform_placeholder |-> platform_placeholder,
                    result |-> LockfilePath(py_string, platform_placeholder)]
    /\ UNCHANGED <<sessionLock, reported, templated, artVars, ulVars, envVars>>

\* The tests session of python version PY_VER[v] asks for its lock file.
CallSessionLockfile(v) ==
    /\ sessionLock' = [sessionLock EXCEPT ![v] = SessionLockfile(v)]
    /\ UNCHANGED <<pathCall, reported, templated, artVars, ulVars, envVars>>

\* One iteration of update_lockfiles' loop, as far as the paths go.
UpdateLockfilesPaths(req_file) ==
    LET python_string == Stem(req_file)
    IN  /\ templated' = [templated EXCEPT ![req_file] = LockfilePath(python_string, TRUE)]
        /\ reported' = [reported EXCEPT ![req_file] = LockfilePath(python_string, FALSE)]
        /\ UNCHANGED <<pathCall, sessionLock, artVars, ulVars, envVars>>

PathNext ==
    \/ \E p \in PyStrings, ph \in BOOLEAN : CallLockfilePath(p, ph)
    \/ \E v \in 1..Len(PY_VER) : CallSessionLockfile(v)
    \/ \E f \in ReqFiles : UpdateLockfilesPaths(f)

-----------------------------------------------------------------------------
(* _get_iris_github_artifact *)

\* Python's None, a value no str equals.
NoneVal == <<"None">>

\* bool(x) for x a str or None
Truthy(x) == x # NoneVal /\ x # EmptyStr

IrisArgPrefix == <<"-","-","i","r","i","s","=">>
Github == <<"g","i","t","h","u","b">>

\* Lines 130-135: the loop over session.posargs, started with result = current.
\* The first argument that starts with --iris= and splits on "=" into exactly
\* two parts sets result and ends the loop; any other argument is passed over.
RECURSIVE SelectSource(_, _)
SelectSource(args, current) ==
    IF args = <<>> THEN current
    ELSE LET arg == Head(args)
             parts == Split(arg, "=")
         IN  IF StartsWith(arg, IrisArgPrefix) /\ Len(parts) = 2
             THEN Strip(parts[2])
             ELSE SelectSource(Tail(args), current)

\* A bug variant of lines 141-147: the repo is compared as written.
ParseSourceCaseSensitive(res) ==
    IF ~Truthy(res) THEN res
    ELSE LET parts == Split(Strip(res), ":")
         IN  IF Len(parts) # 2 THEN NoneVal
             ELSE LET repo == IF StartsWith(parts[1], <<"'">>) \/ StartsWith(parts[1], <<"\"">>)
                              THEN DropFirst(parts[1]) ELSE parts[1]
                      artifact == parts[2]
                  IN  IF repo # Github THEN NoneVal
                      ELSE IF EndsWith(artifact, <<"'">>) \/ EndsWith(artifact, <<"\"">>)
                           THEN DropLast(artifact) ELSE artifact

\* Lines 136-147: the repo:ref parser, applied to the selected result.
ParseSource(res) ==
    IF ~Truthy(res) THEN res
    ELSE LET parts == Split(Strip(res), ":")
         IN  IF Len(parts) # 2 THEN NoneVal
             ELSE LET repo == IF StartsWith(parts[1], <<"'">>) \/ StartsWith(parts[1], <<"\"">>)
                              THEN DropFirst(parts[1]) ELSE parts[1]
                      artifact == parts[2]
                  IN  IF Lower(repo) # Github THEN NoneVal
                      ELSE IF EndsWith(artifact, <<"'">>) \/ EndsWith(artifact, <<"\"">>)
                           THEN DropLast(artifact) ELSE artifact

\* The whole function.
GetIrisGithubArtifact(args, env) == ParseSource(SelectSource(args, env))

\* The most positional arguments a session is given.
MaxArgs == 2

\* The repo:ref texts given on the command line.
SourceValues ==
    { <<"g","i","t","h","u","b",":","b","1">>,
      <<"G","i","t","H","u","b",":","b","1">>,
      <<"'","g","i","t","h","u","b",":","b","1","'">>,
      <<"\"","g","i","t","h","u","b",":","b","2","\"">>,
      <<" ","g","i","t","h","u","b",":","b","1"," ">>,
      <<"g","i","t","l","a","b",":","b","1">>,
      <<"g","i","t","h","u","b">>,
      <<"g","i","t","h","u","b",":","b","1",":","x">>,
      <<"g","i","t","h","u","b",":">>,
      <<>>,
      <<"g","i","t","h","u","b",":","a","=","b">>,
      <<"g","i","t","h","u","b",":","b","1","'">>,
      <<"'","g","i","t","l","a","b",":","b","1","'">> }

\* The values of the IRIS_SOURCE environment variable.
EnvValues ==
    { NoneVal,
      <<>>,
      <<"g","i","t","h","u","b",":","m","a","s","t","e","r">>,
      <<"g","i","t","l","a","b",":","b","1">>,
      <<"'","g","i","t","h","u","b",":","b","2","'">>,
      <<"G","I","T","H","U","B",":","b","2">> }

\* The positional arguments: --iris=<value>, and arguments that are not --iris=.
ArgPool ==
    { IrisArgPrefix \o v : v \in SourceValues }
        \cup { <<"-","v">>, <<"-","-","i","r","i","s">>,
               <<"-","-","v","e","r","b","o","s","e">> }

ArgLists == UNION { [1..n -> ArgPool] : n \in 0..MaxArgs }

ArtInit ==
    /\ posargs \in ArgLists
    /\ IRIS_SOURCE \in EnvValues
    /\ result = NoneVal
    /\ source = NoneVal
    /\ artPc = "start"

\* No call of _get_iris_github_artifact is modelled.
ArtIdle ==
    /\ posargs = <<>>
    /\ IRIS_SOURCE = NoneVal
    /\ result = NoneVal
    /\ source = NoneVal
    /\ artPc = "off"

\* Lines 128-135.
ArtSelect ==
    /\ artPc = "start"
    /\ result' = SelectSource(posargs, IRIS_SOURCE)
    /\ source' = result'
    /\ artPc' = "selected"
    /\ UNCHANGED <<posargs, IRIS_SOURCE, pathVars, ulVars, envVars>>

\* Lines 136-147.
ArtParse ==
    /\ artPc = "selected"
    /\ result' = ParseSource(result)
    /\ artPc' = "returned"
    /\ UNCHANGED <<posargs, IRIS_SOURCE, source, pathVars, ulVars, envVars>>

ArtNext == ArtSelect \/ ArtParse

-----------------------------------------------------------------------------
(* update_lockfiles *)

Iris == <<"i","r","i","s">>
KeyChannels == <<"c","h","a","n","n","e","l","s">>
KeyDependencies == <<"d","e","p","e","n","d","e","n","c","i","e","s">>

\* A line of a YAML file: a top-level key ("channels:"), a list item that is a
\* string ("  - iris") or a list item that is a mapping ("  - pip:").
KeyLine(k) == [kind |-> "key", text |-> k]
ItemLine(t) == [kind |-> "item", text |-> t]
MapLine(t) == [kind |-> "map", text |-> t]

\* a < b for str
RECURSIVE StrLess(_, _)
CharRank(c) ==
    IF \E i \in 1..Len(LowerCase) : LowerCase[i] = c
    THEN CHOOSE i \in 1..Len(LowerCase) : LowerCase[i] = c
    ELSE 0
StrLess(a, b) ==
    IF b = <<>> THEN FALSE
    ELSE IF a = <<>> THEN TRUE
    ELSE IF Head(a) = Head(b) THEN StrLess(Tail(a), Tail(b))
    ELSE CharRank(Head(a)) < CharRank(Head(b))

\* yaml.load(file): the mapping of each top-level key to its list; a key met
\* again replaces what it held.
RECURSIVE YamlLoadFrom(_, _, _)
YamlLoadFrom(lines, key, acc) ==
    IF lines = <<>> THEN acc
    ELSE LET l == Head(lines)
         IN  IF l.kind = "key"
             THEN YamlLoadFrom(Tail(lines), l.text,
                      [k \in (DOMAIN acc) \cup {l.text} |-> IF k = l.text THEN <<>> ELSE acc[k]])
             ELSE YamlLoadFrom(Tail(lines), key,
                      [acc EXCEPT ![key] = Append(@, l)])

YamlLoad(lines) == YamlLoadFrom(lines, <<>>, <<>>)

\* yaml.dump(reqs): the keys in sorted order, each followed by its items.
RECURSIVE YamlDump(_)
YamlDump(reqs) ==
    IF DOMAIN reqs = {} THEN <<>>
    ELSE LET k == CHOOSE x \in DOMAIN reqs : \A y \in DOMAIN reqs : ~StrLess(y, x)
         IN  <<KeyLine(k)>> \o reqs[k]
                 \o YamlDump([y \in (DOMAIN reqs) \ {k} |-> reqs[y]])

\* file.write(data) at position pos of a file opened "r+": the data overwrites
\* what follows pos and extends the file; nothing is truncated.
WriteAt(content, pos, data) ==
    SubSeq(content, 1, pos) \o data
        \o SubSeq(content, pos + Len(data) + 1, Len(content))

\* The items of a list that are kept by `if not spec.startswith("iris")`.
RECURSIVE DropIris(_)
DropIris(items) ==
    IF items = <<>> THEN <<>>
    ELSE IF StartsWith(Head(items).text, Iris) THEN DropIris(Tail(items))
    ELSE <<Head(items)>> \o DropIris(Tail(items))

\* Lines 254-260 raise: the file has no dependencies key, or a dependency is
\* a mapping, which has no startswith.
RewriteRaises(content) ==
    LET reqs == YamlLoad(content)
    IN  \/ KeyDependencies \notin DOMAIN reqs
        \/ \E i \in 1..Len(reqs[KeyDependencies]) : reqs[KeyDependencies][i].kind = "map"

\* Lines 254-261: the file is opened "r+", yaml.load reads it to its end,
\* and yaml.dump writes the filtered mapping at the position the read left.
RewriteRequirements(content) ==
    LET reqs == YamlLoad(content)
        pos == Len(content)
        stripped == [reqs EXCEPT ![KeyDependencies] = DropIris(@)]
    IN  WriteAt(content, pos, YamlDump(stripped))

\* A bug variant of lines 231-234: FileExistsError is not caught.
AfterMkdirUncaught(outcome) == IF outcome = "ok" THEN "copy" ELSE "aborted"

\* Lines 231-234: where update_lockfiles goes on after mkdir() ended `outcome`.
AfterMkdir(outcome) ==
    IF outcome \in {"ok", "FileExistsError"} THEN "copy" ELSE "aborted"

\* The Iris artifact update_lockfiles works with (line 251).
UlArtifact == GetIrisGithubArtifact(posargs, IRIS_SOURCE)

\* The contents a requirements file has.
ReqContents ==
    { <<KeyLine(KeyChannels), ItemLine(<<"c","o","n","d","a","-","f","o","r","g","e">>),
        KeyLine(KeyDependencies), ItemLine(<<"p","y","t","h","o","n">>), ItemLine(Iris),
        ItemLine(<<"n","u","m","p","y">>)>>,
      <<KeyLine(KeyDependencies), ItemLine(<<"i","r","i","s","-","g","r","i","b">>),
        ItemLine(<<"n","u","m","p","y">>)>>,
      <<KeyLine(KeyDependencies), ItemLine(<<"n","u","m","p","y">>),
        MapLine(<<"p","i","p">>)>>,
      <<KeyLine(KeyDependencies), ItemLine(<<"p","y","t","h","o","n">>)>> }

NoContent == <<>>

UlInit ==
    /\ ulPc = "install"
    /\ ulTodo = ReqFiles
    /\ ulFile = EmptyStr
    /\ lockDirExists \in BOOLEAN
    /\ reqContent \in [ReqFiles -> ReqContents]
    /\ tmpContent = [f \in ReqFiles |-> NoContent]
    /\ irisReq = {}
    /\ condaRuns = <<>>
    /\ ulLog = <<>>

\* update_lockfiles is not run.
UlIdle ==
    /\ ulPc = "off"
    /\ ulTodo = {}
    /\ ulFile = EmptyStr
    /\ lockDirExists = FALSE
    /\ reqContent = [f \in ReqFiles |-> NoContent]
    /\ tmpContent = [f \in ReqFiles |-> NoContent]
    /\ irisReq = {}
    /\ condaRuns = <<>>
    /\ ulLog = <<>>

Logged(step, outcome) ==
    ulLog' = Append(ulLog, [file |-> ulFile, step |-> step, outcome |-> outcome])

\* Line 221: session.install("conda-lock").
UlInstall(ok) ==
    /\ ulPc = "install"
    /\ ulPc' = IF ok THEN "loop" ELSE "aborted"
    /\ Logged("install", IF ok THEN "ok" ELSE "error")
    /\ UNCHANGED <<ulTodo, ulFile, lockDirExists, reqContent, tmpContent, irisReq,
                   condaRuns, pathVars, artVars, envVars>>

\* Line 223: the glob yields its next file.
UlNextFile(req_file) ==
    /\ ulPc = "loop"
    /\ req_file \in ulTodo
    /\ ulTodo' = ulTodo \ {req_file}
    /\ ulFile' = req_file
    /\ ulPc' = "mkdir"
    /\ UNCHANGED <<lockDirExists, reqContent, tmpContent, irisReq, condaRuns, ulLog,
                   pathVars, artVars, envVars>>

\* Line 223: the glob is exhausted and the session ends.
UlFinish ==
    /\ ulPc = "loop"
    /\ ulTodo = {}
    /\ ulPc' = "done"
    /\ UNCHANGED <<ulTodo, ulFile, lockDirExists, reqContent, tmpContent, irisReq,
                   condaRuns, ulLog, pathVars, artVars, envVars>>

\* Lines 231-234: filename_template.parent.mkdir().  An existing directory
\* raises FileExistsError; a missing one is created unless mkdir fails for
\* another reason (other_error).
UlMkdir(other_error) ==
    /\ ulPc = "mkdir"
    /\ LET outcome == IF lockDirExists THEN "FileExistsError"
                      ELSE IF other_error THEN "error" ELSE "ok"
       IN  /\ ulPc' = AfterMkdir(outcome)
           /\ lockDirExists' = (lockDirExists \/ outcome = "ok")
           /\ Logged("mkdir", outcome)
    /\ UNCHANGED <<ulTodo, ulFile, reqContent, tmpContent, irisReq, condaRuns,
                   pathVars, artVars, envVars>>

\* Lines 238-251: the copy into the tmp dir, then the Iris artifact decides
\* whether the copy is rewritten.
UlCopy(ok) ==
    /\ ulPc = "copy"
    /\ tmpContent' = IF ok THEN [tmpContent EXCEPT ![ulFile] = reqContent[ulFile]]
                     ELSE tmpContent
    /\ ulPc' = IF ~ok THEN "aborted"
               ELSE IF Truthy(UlArtifact) THEN "rewrite" ELSE "conda-lock"
    /\ Logged("copy", IF ok THEN "ok" ELSE "error")
    /\ UNCHANGED <<ulTodo, ulFile, lockDirExists, reqContent, irisReq, condaRuns,
                   pathVars, artVars, envVars>>

\* Lines 252-261: the YAML rewrite of the copy.
UlRewrite ==
    /\ ulPc = "rewrite"
    /\ LET raises == RewriteRaises(tmpContent[ulFile])
       IN  /\ tmpContent' = IF raises THEN tmpContent
                            ELSE [tmpContent EXCEPT
                                     ![ulFile] = RewriteRequirements(@)]
           /\ ulPc' = IF raises THEN "aborted" ELSE "download"
           /\ Logged("rewrite", IF raises THEN "error" ELSE "ok")
    /\ UNCHANGED <<ulTodo, ulFile, lockDirExists, reqContent, irisReq, condaRuns,
                   pathVars, artVars, envVars>>

\* Lines 263-270: the download of Iris' requirements file.
UlDownload(ok) ==
    /\ ulPc = "download"
    /\ irisReq' = IF ok THEN irisReq \cup {Stem(ulFile) \o <<"-">> \o Iris \o YmlSuffix}
                  ELSE irisReq
    /\ ulPc' = IF ok THEN "conda-lock" ELSE "aborted"
    /\ Logged("download", IF ok THEN "ok" ELSE "error")
    /\ UNCHANGED <<ulTodo, ulFile, lockDirExists, reqContent, tmpContent, condaRuns,
                   pathVars, artVars, envVars>>

\* Lines 272-273: conda-lock is run on the copy, and the loop goes on.
UlCondaLock(ok) ==
    /\ ulPc = "conda-lock"
    /\ condaRuns' = Append(condaRuns,
                        [file |-> ulFile,
                         template |-> LockfilePath(Stem(ulFile), TRUE),
                         content |-> tmpContent[ulFile],
                         artifact |-> UlArtifact])
    /\ ulPc' = IF ok THEN "loop" ELSE "aborted"
    /\ Logged("conda-lock", IF ok THEN "ok" ELSE "error")
    /\ UNCHANGED <<ulTodo, ulFile, lockDirExists, reqContent, tmpContent, irisReq,
                   pathVars, artVars, envVars>>

UlNext ==
    \/ \E ok \in BOOLEAN : UlInstall(ok)
    \/ \E f \in ReqFiles : UlNextFile(f)
    \/ UlFinish
    \/ \E other_error \in BOOLEAN : UlMkdir(other_error)
    \/ \E ok \in BOOLEAN : UlCopy(ok)
    \/ UlRewrite
    \/ \E ok \in BOOLEAN : UlDownload(ok)
    \/ \E ok \in BOOLEAN : UlCondaLock(ok)

-----------------------------------------------------------------------------
(* The tests session: _venv_populated, _venv_changed, _cache_venv, _prepare_env *)

\* The sessions of `tests`, one per entry of PY_VER.
Sessions == 1..Len(PY_VER)
NoSession == 0

\* The lock-file contents told apart: content c stands for the bytes of the
\* decimal numeral of c; NoFile for a lock file that does not exist.
MaxContent == 2
NoFile == 0
Contents == 1..MaxContent

\* hashlib.sha256(b).hexdigest() for the bytes b"1", b"2", ... b"6".
DigestTable ==
    << "6b86b273ff34fce19d6b804eff5a3f5747ada4eaa22f1d49c01e52ddb7875b4b",
       "d4735e3a265e16eee03f59718b9b5d03019c07d8b6c51f90da3a666eec13ab35",
       "4e07408562bedb8b60ce05c1decfe3ad16b72230967de01f640b7e4729b49fce",
       "4b227777d4dd1fc61c6f884f48641d02b4d121d3fd328cb08b5531fcacdabf8a",
       "ef2d127de37b942baad06145e54b0c619a1f22327b2ebbcfbec78f5564afe39d",
       "e7f6c011776e8db7cd330b54174fd76f7d0216b612387a5ffcfb81e6f0919683" >>

Sha256Hex(c) == DigestTable[c]

\* hashlib.sha256(str(path).encode()).hexdigest() of
\* requirements/nox.lock/38-linux-64.lock: what hashing the path would store.
PathDigest == "73dcc2bb03c7e8657b6bdef19844907ef007356fdc24aadb95d373c7fe18ee18"

\* The cache marker file does not exist.
NoMarker == "<no file>"

\* nox.options.reuse_existing_virtualenvs (line 20)
reuse_existing_virtualenvs == TRUE

\* The states of a conda environment: no directory ("absent"), created with no
\* lock file installed ("bare"), an install that failed part-way ("partial"),
\* the packages of lock content `from` installed ("installed").
Venv(state, from) == [state |-> state, from |-> from]

\* _venv_populated(session)
VenvPopulated(s) == marker[s] # NoMarker

\* A bug variant of _venv_changed: the comparison is the wrong way round.
VenvChangedInverted(s) ==
    IF ~VenvPopulated(s) THEN "false"
    ELSE IF lock[s] = NoFile THEN "error"
    ELSE IF marker[s] = Sha256Hex(lock[s]) THEN "true" ELSE "false"

\* _venv_changed(session): "true", "false", or "error" when opening the lock
\* file raises.
VenvChanged(s) ==
    IF ~VenvPopulated(s) THEN "false"
    ELSE IF lock[s] = NoFile THEN "error"
    ELSE IF marker[s] # Sha256Hex(lock[s]) THEN "true" ELSE "false"

\* A bug variant of _cache_venv: the path is hashed, not the file's bytes.
CachedDigestOfPath(s) == PathDigest

\* _cache_venv(session): the text written to the cache marker.
CachedDigest(s) == Sha256Hex(lock[s])

\* A bug variant of the rebuild: the marker is kept outside the environment
\* directory and outlives it.
MarkerAfterCreateKept(s) == marker[s]

\* session.virtualenv.create() with reuse_existing = False removes the
\* environment directory.  The cache marker lives in session.create_tmp(),
\* the tmp directory inside that directory, and goes with it.
MarkerAfterCreate(s) == NoMarker

\* A bug variant of lines 154-161: a populated environment is always rebuilt.
BranchAlwaysRebuild(s) ==
    IF ~VenvPopulated(s) THEN "populate"
    ELSE IF VenvChanged(s) = "error" THEN "error" ELSE "recreate"

\* Lines 154 and 161: the branch _prepare_env takes.
Branch(s) ==
    IF ~VenvPopulated(s) THEN "populate"
    ELSE IF VenvChanged(s) = "error" THEN "error"
    ELSE IF VenvChanged(s) = "true" THEN "recreate"
    ELSE "uptodate"

NoRun == [startMarker |-> NoMarker, installs |-> 0, creates |-> 0]

EnvInit ==
    /\ lock \in [Sessions -> Contents]
    /\ marker = [s \in Sessions |-> NoMarker]
    /\ venv = [s \in Sessions |-> Venv("absent", NoFile)]
    /\ pc = "idle"
    /\ cur = NoSession
    /\ run = NoRun
    /\ lastOk = NoSession
    /\ changed = "none"

\* No tests session is run.
EnvIdle ==
    /\ lock = [s \in Sessions |-> NoFile]
    /\ marker = [s \in Sessions |-> NoMarker]
    /\ venv = [s \in Sessions |-> Venv("absent", NoFile)]
    /\ pc = "off"
    /\ cur = NoSession
    /\ run = NoRun
    /\ lastOk = NoSession
    /\ changed = "none"

\* The session under way ends with an error.
Aborted ==
    /\ pc' = "idle"
    /\ cur' = NoSession
    /\ run' = NoRun
    /\ lastOk' = NoSession

\* Between sessions the lock file of a session is regenerated (update_lockfiles
\* runs conda-lock), edited or removed.
ChangeLockfile(s, c) ==
    /\ pc = "idle"
    /\ c # lock[s]
    /\ lock' = [lock EXCEPT ![s] = c]
    /\ lastOk' = IF lastOk = s THEN NoSession ELSE lastOk
    /\ UNCHANGED <<marker, venv, pc, cur, run, changed, pathVars, artVars, ulVars>>

\* nox starts the tests session of PY_VER[s]: with reuse_existing_virtualenvs
\* an existing environment is reused, a missing one is created (ok tells
\* whether conda create succeeds), and tests() calls _prepare_env.
StartSession(s, ok) ==
    /\ pc = "idle"
    /\ reuse_existing_virtualenvs
    /\ IF venv[s].state # "absent"
       THEN /\ ok
            /\ UNCHANGED venv
            /\ pc' = "prepare" /\ cur' = s
            /\ run' = [NoRun EXCEPT !.startMarker = marker[s]]
            /\ UNCHANGED lastOk
       ELSE IF ok
       THEN /\ venv' = [venv EXCEPT ![s] = Venv("bare", NoFile)]
            /\ pc' = "prepare" /\ cur' = s
            /\ run' = [NoRun EXCEPT !.startMarker = marker[s]]
            /\ UNCHANGED lastOk
       ELSE /\ UNCHANGED venv
            /\ Aborted
    /\ UNCHANGED <<lock, marker, changed, pathVars, artVars, ulVars>>

\* Lines 154 and 161: _prepare_env picks its branch; _venv_changed raising
\* ends the session.
Decide ==
    /\ pc = "prepare"
    /\ IF Branch(cur) = "error"
       THEN Aborted
       ELSE /\ pc' = Branch(cur)
            /\ UNCHANGED <<cur, run, lastOk>>
    /\ UNCHANGED <<lock, marker, venv, changed, pathVars, artVars, ulVars>>

\* session.conda_install(f"--file={lockfile}") (lines 158 and 167): it
\* succeeds only if the lock file is there, and may fail anyway.
CondaInstall(at, ok) ==
    /\ pc = at
    /\ IF ok /\ lock[cur] # NoFile
       THEN /\ venv' = [venv EXCEPT ![cur] = Venv("installed", lock[cur])]
            /\ pc' = "cache"
            /\ run' = [run EXCEPT !.installs = @ + 1]
            /\ UNCHANGED <<cur, lastOk>>
       ELSE /\ venv' = [venv EXCEPT ![cur] = Venv("partial", NoFile)]
            /\ Aborted
    /\ UNCHANGED <<lock, marker, changed, pathVars, artVars, ulVars>>

\* Line 158: the populate branch installs.
PopulateInstall(ok) ==
    /\ CondaInstall("populate", ok)

\* Lines 164-166: the recreate branch destroys the environment and creates it
\* anew; ok tells whether conda create succeeds.
RecreateCreate(ok) ==
    /\ pc = "recreate"
    /\ marker' = [marker EXCEPT ![cur] = MarkerAfterCreate(cur)]
    /\ venv' = [venv EXCEPT ![cur] = IF ok THEN Venv("bare", NoFile)
                                     ELSE Venv("absent", NoFile)]
    /\ IF ok
       THEN /\ pc' = "reinstall"
            /\ run' = [run EXCEPT !.creates = @ + 1]
            /\ UNCHANGED <<cur, lastOk>>
       ELSE Aborted
    /\ UNCHANGED <<lock, changed, pathVars, artVars, ulVars>>

\* Line 167: the recreate branch installs.
RecreateInstall(ok) ==
    /\ CondaInstall("reinstall", ok)

\* Lines 159 and 169: _cache_venv writes the marker.
CacheVenv ==
    /\ pc = "cache"
    /\ marker' = [marker EXCEPT ![cur] = CachedDigest(cur)]
    /\ pc' = "uptodate"
    /\ UNCHANGED <<lock, venv, cur, run, lastOk, changed, pathVars, artVars, ulVars>>

\* Lines 171-203: the Iris checkout and the verbose listing; ok tells whether
\* every command of them succeeds.  _prepare_env then returns.
FinishPrepare(ok) ==
    /\ pc = "uptodate"
    /\ IF ok
       THEN /\ pc' = "done"
            /\ UNCHANGED <<cur, run, lastOk>>
       ELSE Aborted
    /\ UNCHANGED <<lock, marker, venv, changed, pathVars, artVars, ulVars>>

\* Lines 326-336: the rest of tests(); the session ends.
EndSession ==
    /\ pc = "done"
    /\ pc' = "idle"
    /\ lastOk' = cur
    /\ cur' = NoSession
    /\ run' = NoRun
    /\ UNCHANGED <<lock, marker, venv, changed, pathVars, artVars, ulVars>>

\* A direct call of _venv_changed(session) between sessions.
CallVenvChanged(s) ==
    /\ pc = "idle"
    /\ pc' = "called"
    /\ cur' = s
    /\ changed' = VenvChanged(s)
    /\ UNCHANGED <<lock, marker, venv, run, lastOk, pathVars, artVars, ulVars>>

\* The direct call returns (or raises).
ReturnVenvChanged ==
    /\ pc = "called"
    /\ pc' = "idle"
    /\ cur' = NoSession
    /\ changed' = "none"
    /\ UNCHANGED <<lock, marker, venv, run, lastOk, pathVars, artVars, ulVars>>

EnvNext ==
    \/ \E s \in Sessions, c \in Contents \cup {NoFile} : ChangeLockfile(s, c)
    \/ \E s \in Sessions, ok \in BOOLEAN : StartSession(s, ok)
    \/ Decide
    \/ \E ok \in BOOLEAN : PopulateInstall(ok)
    \/ \E ok \in BOOLEAN : RecreateCreate(ok)
    \/ \E ok \in BOOLEAN : RecreateInstall(ok)
    \/ CacheVenv
    \/ \E ok \in BOOLEAN : FinishPrepare(ok)
    \/ EndSession
    \/ \E s \in Sessions : CallVenvChanged(s)
    \/ ReturnVenvChanged

-----------------------------------------------------------------------------
(* Specifications *)

\* No path builder is called.
PathIdle == PathInit

InitPath == PathInit /\ ArtIdle /\ UlIdle /\ EnvIdle

SpecPath == InitPath /\ [][PathNext]_vars

InitArtifact == ArtInit /\ PathIdle /\ UlIdle /\ EnvIdle

SpecArtifact == InitArtifact /\ [][ArtNext]_vars

\* The command lines and environments update_lockfiles is run with.
UlArgLists == { <<>>, <<IrisArgPrefix \o <<"g","i","t","h","u","b",":","b","1">> >> }
UlEnvValues == { NoneVal, <<"g","i","t","h","u","b",":","m","a","s","t","e","r">> }

InitLock ==
    /\ UlInit
    /\ PathIdle
    /\ EnvIdle
    /\ posargs \in UlArgLists
    /\ IRIS_SOURCE \in UlEnvValues
    /\ result = NoneVal
    /\ source = NoneVal
    /\ artPc = "off"

SpecLock == InitLock /\ [][UlNext]_vars

Init == EnvInit /\ PathIdle /\ ArtIdle /\ UlIdle

Next == EnvNext

Spec == Init /\ [][Next]_vars

-----------------------------------------------------------------------------
(* Claims about _get_iris_github_artifact *)

Quotes == {"'", "\""}

\* The number of ":" in s.
Colons(s) == Cardinality({ i \in 1..Len(s) : s[i] = ":" })

GithubPrefix == <<"g","i","t","h","u","b",":">>

\* C3 as stated: the parser returns the ref for an input github:<ref>, and a
\* falsy result for every input that lacks the github: prefix or is not of the
\* two-part repo:ref shape.
C3_OnlyGithubPrefixAccepted ==
    artPc = "returned" =>
        /\ (StartsWith(source, GithubPrefix) /\ Colons(source) = 1
                => result = SubSeq(source, Len(GithubPrefix) + 1, Len(source)))
        /\ (~StartsWith(source, GithubPrefix) \/ Colons(source) # 1
                => ~Truthy(result))

\* C3 as amended: the parser accepts an input exactly when, with the
\* surrounding whitespace stripped, it holds one ":" and the text before it,
\* less one leading quote character, is "github" in any letter case; it then
\* returns the text after the ":" less one trailing quote character.  Every
\* other input gives a falsy result.
C3_ParserAcceptance ==
    artPc = "returned" =>
        LET s == Strip(source)
            c == IndexOf(s, ":")
            repo == SubSeq(s, 1, c - 1)
            ref == SubSeq(s, c + 1, Len(s))
            bare == IF repo # <<>> /\ repo[1] \in Quotes THEN Tail(repo) ELSE repo
            accepted == /\ source # NoneVal
                        /\ Colons(s) = 1
                        /\ Lower(bare) = Github
        IN  IF accepted
            THEN result = (IF ref # <<>> /\ ref[Len(ref)] \in Quotes
                           THEN DropLast(ref) ELSE ref)
            ELSE ~Truthy(result)

\* A quoted, differently cased input was parsed and its ref returned.
C3_Witness ==
    /\ artPc = "returned"
    /\ source = <<"G","i","t","H","u","b",":","b","1">>
    /\ result = <<"b","1">>

\* The indexes of the positional arguments that start with --iris=.
IrisArgs == { i \in 1..Len(posargs) : StartsWith(posargs[i], IrisArgPrefix) }

\* The text after --iris= in an argument.
CliValue(arg) == SubSeq(arg, Len(IrisArgPrefix) + 1, Len(arg))

\* C4: with a --iris=<value> argument among the positional arguments and
\* IRIS_SOURCE set (to a text), the result is the parse of a command-line value, whatever
\* the value is and wherever the argument stands, never that of IRIS_SOURCE.
C4_CliOverridesEnvironment ==
    (artPc = "returned" /\ Truthy(IRIS_SOURCE) /\ IrisArgs # {}) =>
        \E i \in IrisArgs : result = ParseSource(Strip(CliValue(posargs[i])))

-----------------------------------------------------------------------------
(* Claims about the lock-file paths *)

Py38LockStr == <<"r","e","q","u","i","r","e","m","e","n","t","s","/","n","o","x",".","l","o","c","k","/","p","y","3","8","-","l","i","n","u","x","-","6","4",".","l","o","c","k">>
Py38TemplateStr == <<"r","e","q","u","i","r","e","m","e","n","t","s","/","n","o","x",".","l","o","c","k","/","p","y","3","8","-","{","p","l","a","t","f","o","r","m","}",".","l","o","c","k">>
Bare38LockStr == <<"r","e","q","u","i","r","e","m","e","n","t","s","/","n","o","x",".","l","o","c","k","/","3","8","-","l","i","n","u","x","-","6","4",".","l","o","c","k">>
Bare38TemplateStr == <<"r","e","q","u","i","r","e","m","e","n","t","s","/","n","o","x",".","l","o","c","k","/","3","8","-","{","p","l","a","t","f","o","r","m","}",".","l","o","c","k">>

\* C5 as stated: _lockfile_path given "38" produces
\* requirements/nox.lock/py38-linux-64.lock without the placeholder option and
\* requirements/nox.lock/py38-{platform}.lock with it.
C5_PathForVersion38 ==
    (pathCall.called /\ pathCall.py_string = <<"3","8">>) =>
        pathCall.result = (IF pathCall.platform_placeholder
                           THEN Py38TemplateStr ELSE Py38LockStr)

\* C5 as amended: _lockfile_path adds no "py" of its own.  Given "py38" it
\* produces requirements/nox.lock/py38-linux-64.lock without the placeholder
\* option and requirements/nox.lock/py38-{platform}.lock with it; given "38"
\* it produces requirements/nox.lock/38-linux-64.lock and
\* requirements/nox.lock/38-{platform}.lock.
C5_PathForPyString ==
    pathCall.called =>
        /\ pathCall.py_string = <<"p","y","3","8">> =>
               pathCall.result = (IF pathCall.platform_placeholder
                                  THEN Py38TemplateStr ELSE Py38LockStr)
        /\ pathCall.py_string = <<"3","8">> =>
               pathCall.result = (IF pathCall.platform_placeholder
                                  THEN Bare38TemplateStr ELSE Bare38LockStr)

\* _lockfile_path was called with "py38" and the placeholder option.
C5_Witness ==
    /\ pathCall.called
    /\ pathCall.py_string = <<"p","y","3","8">>
    /\ pathCall.platform_placeholder
    /\ pathCall.result = Py38TemplateStr

\* C10: for every python version X.Y, the path the tests session reads and
\* hashes is the path at which update_lockfiles reports the lock file it
\* generated from requirements/pyXY.yml.
C10_SessionReadsGeneratedLock ==
    \A v \in 1..Len(PY_VER) :
        (sessionLock[v] # EmptyStr /\ reported[ReqFileOf(v)] # EmptyStr)
            => sessionLock[v] = reported[ReqFileOf(v)]

-----------------------------------------------------------------------------
(* Claims about update_lockfiles *)

\* C6: a FileExistsError of the lock directory's mkdir is passed over and the
\* session goes on with that requirements file, running conda-lock for it when
\* nothing else fails; any other failure of any step is the last thing the
\* session does: nothing is retried and no later requirements file is taken.
C6_OnlyExistingDirIgnored ==
    /\ \A i \in 1..Len(ulLog) :
        /\ ulLog[i].outcome = "FileExistsError" =>
            /\ ulLog[i].step = "mkdir"
            /\ IF i = Len(ulLog)
               THEN ulPc = "copy" /\ ulFile = ulLog[i].file
               ELSE ulLog[i + 1].step = "copy" /\ ulLog[i + 1].file = ulLog[i].file
        /\ ulLog[i].outcome = "error" => (i = Len(ulLog) /\ ulPc = "aborted")
    /\ ulPc = "aborted" => (ulLog # <<>> /\ ulLog[Len(ulLog)].outcome = "error")
    /\ ulPc = "done" =>
           \A f \in ReqFiles : \E i \in 1..Len(ulLog) :
               ulLog[i] = [file |-> f, step |-> "conda-lock", outcome |-> "ok"]

\* mkdir raised FileExistsError for a requirements file and conda-lock was then
\* run for that file; a later step failed and ended the session.
C6_Witness ==
    /\ ulPc = "aborted"
    /\ \E i, j \in 1..Len(ulLog) :
        /\ i < j
        /\ ulLog[i].outcome = "FileExistsError"
        /\ ulLog[j].file = ulLog[i].file
        /\ ulLog[j].step = "conda-lock"
        /\ ulLog[j].outcome = "ok"

\* C7: with an Iris artifact given, the file handed to conda-lock holds no
\* dependency whose name starts with iris.
C7_NoIrisEntryHandedOver ==
    \A i \in 1..Len(condaRuns) :
        Truthy(condaRuns[i].artifact) =>
            \A j \in 1..Len(condaRuns[i].content) :
                condaRuns[i].content[j].kind = "item"
                    => ~StartsWith(condaRuns[i].content[j].text, Iris)

-----------------------------------------------------------------------------
(* Claims about the environment cache *)

\* C1: whenever _prepare_env has returned, the session's cache marker exists
\* and holds the SHA-256 hex digest of the lock file on disk, whichever branch
\* the run took and whatever lock-file changes and runs came before.
C1_MarkerMatchesLockAfterPrepare ==
    pc = "done" =>
        /\ marker[cur] # NoMarker
        /\ lock[cur] # NoFile
        /\ marker[cur] = Sha256Hex(lock[cur])

\* _prepare_env returned from a run that took the recreate branch.
C1_Witness == pc = "done" /\ run.creates = 1 /\ run.installs = 1

\* C2 as stated: _venv_changed returns false when the stored digest equals the
\* digest of the lock file and true in every other state, the one with no
\* cache marker included.
C2_ChangedIffDigestsDiffer ==
    (pc = "called" /\ lock[cur] # NoFile) =>
        changed = (IF marker[cur] = Sha256Hex(lock[cur]) THEN "false" ELSE "true")

\* C2 as amended: with no cache marker _venv_changed returns false, whatever
\* the lock file; with a marker and a lock file it returns false when the
\* stored text equals the lock file's SHA-256 hex digest and true otherwise;
\* with a marker and no lock file it raises.
C2_ChangedOnlyWhenPopulated ==
    pc = "called" =>
        IF marker[cur] = NoMarker THEN changed = "false"
        ELSE IF lock[cur] = NoFile THEN changed = "error"
        ELSE changed = (IF marker[cur] = Sha256Hex(lock[cur]) THEN "false" ELSE "true")

\* _venv_changed was called with a marker that no longer matches, and
\* returned true.
C2_Witness ==
    /\ pc = "called"
    /\ marker[cur] # NoMarker
    /\ lock[cur] # NoFile
    /\ changed = "true"

\* The running _prepare_env met no marker.
MetNoMarker == run.startMarker = NoMarker

\* The running _prepare_env met a marker that differs from the lock file's digest.
MetStaleMarker ==
    /\ run.startMarker # NoMarker
    /\ lock[cur] # NoFile
    /\ run.startMarker # Sha256Hex(lock[cur])

\* C8: _prepare_env installs from the lock file exactly when it met no marker
\* or a marker that differs from the lock file's digest, destroys and recreates
\* the environment only in the second case and does neither when the marker
\* matches; a run that follows a successful run of the same session with the
\* lock file unchanged installs nothing.
C8_InstallExactlyWhenStale ==
    /\ pc = "populate" => MetNoMarker
    /\ pc \in {"recreate", "reinstall"} => MetStaleMarker
    /\ pc \in {"cache", "uptodate", "done"} =>
        /\ run.installs = (IF MetNoMarker \/ MetStaleMarker THEN 1 ELSE 0)
        /\ run.creates = (IF MetStaleMarker THEN 1 ELSE 0)
    /\ (pc \in {"prepare", "populate", "recreate", "reinstall", "cache", "uptodate", "done"}
            /\ lastOk = cur) =>
        /\ pc \in {"prepare", "uptodate", "done"}
        /\ run.installs = 0
        /\ run.creates = 0

\* A second run of a session right after a successful one, the lock file
\* unchanged, has returned without installing.
C8_Witness ==
    /\ pc = "done"
    /\ lastOk = cur
    /\ run.installs = 0
    /\ run.startMarker = Sha256Hex(lock[cur])

\* C9: in every reachable state, a cache marker that exists belongs to an
\* environment that was created and holds the packages installed from the
\* lock-file content whose digest the marker stores; a rebuild that destroys
\* the environment and then fails to install leaves no marker.
C9_MarkerImpliesInstalled ==
    \A s \in Sessions :
        marker[s] # NoMarker =>
            /\ venv[s].state = "installed"
            /\ marker[s] = Sha256Hex(venv[s].from)

\* A rebuild has destroyed the environment of the running session, and its
\* marker with it, before the install that may fail; another session holds a
\* marker for the lock content it was installed from.
C9_Witness ==
    /\ pc = "reinstall"
    /\ run.startMarker # NoMarker
    /\ marker[cur] = NoMarker
    /\ venv[cur].state = "bare"
    /\ \E s \in Sessions :
        /\ marker[s] # NoMarker
        /\ lock[s] # venv[s].from

=============================================================================
